---- MODULE Spec2Model ----
(***************************************************************************)
(* Model of src/lib/api/normalize.js: the filters that shape pasted        *)
(* Draft.js content to the configuration of a Draftail editor.             *)
(*                                                                         *)
(* The content of an editor state is its block map (an OrderedMap, here a  *)
(* function from the block keys 1..n, in document order, to blocks) and    *)
(* its entity map.  A block has a type, a depth, a text (a sequence of     *)
(* one-character strings) and a character list (a sequence of character    *)
(* metadata: a style set and an entity key, or null).  The filters never   *)
(* create or remove entities, so the entity map is a fixed function.       *)
(***************************************************************************)
EXTENDS Integers, Sequences, FiniteSets, TLC

VARIABLES
    input,                \* the editor state the filter is first called on
    editorState,          \* the current editor state (its block map)
    maxListNesting,       \* configuration, the arguments of filterEditorState
    enableHorizontalRule,
    blockTypes,
    inlineStyles,
    entityTypes,
    pc                    \* "pasted", "filtered" (one call), "refiltered" (two)

vars == <<input, editorState, maxListNesting, enableHorizontalRule,
          blockTypes, inlineStyles, entityTypes, pc>>

config == <<maxListNesting, enableHorizontalRule, blockTypes, inlineStyles,
            entityTypes>>

----------------------------------------------------------------------------
(* Bounds of the checked documents.                                        *)

MaxBlocks == 2      \* blocks per document, in the document-level model
MaxLen == 2         \* characters per block, in the character-level models
MaxDepth == 1       \* largest block depth and largest maxListNesting

----------------------------------------------------------------------------
(* Constants of ../api/constants, as used by normalize.js.                 *)

UNSTYLED == "unstyled"
ATOMIC == "atomic"
HEADER_ONE == "header-one"

LINK == "LINK"
IMAGE == "IMAGE"
HORIZONTAL_RULE == "HORIZONTAL_RULE"

BOLD == "BOLD"
ITALIC == "ITALIC"

Null == "null"          \* no entity (char.getEntity() === null)
Placeholder == " "      \* the text of a well-formed atomic block

\* content.getEntity(key).getType(): the entity map of the document.
getEntityType(entityKey) ==
    CASE entityKey = "1" -> LINK
      [] entityKey = "2" -> IMAGE
      [] entityKey = "3" -> HORIZONTAL_RULE

EntityKeys == {"1", "2", "3"}

----------------------------------------------------------------------------
(* Immutable.js helpers (OrderedMap.filter is a set of kept keys).       *)

\* OrderedMap.merge: the entries of changed replace those of blockMap having
\* the same key; the order of blockMap is kept.
merge(blockMap, changed) ==
    [k \in DOMAIN blockMap |->
        IF k \in DOMAIN changed THEN changed[k] ELSE blockMap[k]]

\* List.slice(0, 1)
sliceFirst(list) == IF Len(list) = 0 THEN <<>> ELSE <<list[1]>>

\* ContentBlock.getEntityAt(0)
getEntityAt0(block) ==
    IF Len(block.characterList) = 0 THEN Null
    ELSE block.characterList[1].entity

----------------------------------------------------------------------------
(* The filters.                                                            *)

\* Variant: the depth is set on every block, not only on the deeper ones.
resetBlockDepthOfAll(blockMap, maxNesting) ==
    [k \in DOMAIN blockMap |-> [blockMap[k] EXCEPT !.depth = maxNesting]]

resetBlockDepth(blockMap, maxNesting) ==
    LET changedKeys == {k \in DOMAIN blockMap : blockMap[k].depth > maxNesting}
        changedBlocks == [k \in changedKeys |->
                             [blockMap[k] EXCEPT !.depth = maxNesting]]
    IN  IF changedKeys # {} THEN merge(blockMap, changedBlocks) ELSE blockMap

\* Variant: the membership test is inverted.
resetBlockTypeInverted(blockMap, enabledTypes) ==
    [k \in DOMAIN blockMap |->
        IF blockMap[k].type \in enabledTypes
        THEN [blockMap[k] EXCEPT !.type = UNSTYLED]
        ELSE blockMap[k]]

resetBlockType(blockMap, enabledTypes) ==
    LET changedKeys == {k \in DOMAIN blockMap :
                           blockMap[k].type \notin enabledTypes}
        changedBlocks == [k \in changedKeys |->
                             [blockMap[k] EXCEPT !.type = UNSTYLED]]
    IN  IF changedKeys # {} THEN merge(blockMap, changedBlocks) ELSE blockMap

\* Variant: a character with a disabled style loses all of its styles.
removeAllStyles(char, enabledTypes) ==
    IF \E t \in char.style : t \notin enabledTypes
    THEN [char EXCEPT !.style = {}]
    ELSE char

\* The character of filterInlineStyle's inner map: every style that is not
\* enabled is removed, one at a time.
removeDisabledStyles(char, enabledTypes) ==
    [char EXCEPT !.style = char.style \ {t \in char.style : t \notin enabledTypes}]

filterInlineStyle(blockMap, enabledTypes) ==
    LET blocks == [k \in DOMAIN blockMap |->
            LET block == blockMap[k]
                chars == [i \in DOMAIN block.characterList |->
                            removeDisabledStyles(block.characterList[i], enabledTypes)]
                altered == \E i \in DOMAIN block.characterList :
                              \E t \in block.characterList[i].style :
                                  t \notin enabledTypes
            IN  IF altered THEN [block EXCEPT !.characterList = chars] ELSE block]
    IN  merge(blockMap, blocks)

\* Variant: shouldReset starts out true.
shouldResetByDefault(block, enabledTypes) ==
    LET entityKey == getEntityAt0(block)
    IN  IF entityKey # Null
        THEN getEntityType(entityKey) \notin enabledTypes
        ELSE TRUE

\* The second filter of resetBlocks in resetAtomicBlocks.
shouldReset(block, enabledTypes) ==
    LET entityKey == getEntityAt0(block)
    IN  IF entityKey # Null
        THEN getEntityType(entityKey) \notin enabledTypes
        ELSE FALSE

resetAtomicBlocks(blockMap, enabledTypes) ==
    LET normalisedKeys == {k \in DOMAIN blockMap :
            blockMap[k].type = ATOMIC /\ blockMap[k].text # <<Placeholder>>}
        normalisedBlocks == [k \in normalisedKeys |->
            [blockMap[k] EXCEPT !.text = <<Placeholder>>,
                                !.characterList = sliceFirst(@)]]
        blocks1 == IF normalisedKeys # {}
                   THEN merge(blockMap, normalisedBlocks)
                   ELSE blockMap
        resetKeys == {k \in DOMAIN blocks1 :
            blocks1[k].type = ATOMIC /\ shouldReset(blocks1[k], enabledTypes)}
        resetBlocks == [k \in resetKeys |-> [blocks1[k] EXCEPT !.type = UNSTYLED]]
        \* line 185 merges into blockMap, not into blocks
        blocks2 == IF resetKeys # {}
                   THEN merge(blockMap, resetBlocks)
                   ELSE blocks1
    IN  merge(blockMap, blocks2)

\* Variant: only the image rule, no check against the enabled types.
filterCharEntityImageOnly(char, blockType, enabledTypes) ==
    IF char.entity # Null /\ getEntityType(char.entity) = IMAGE
                          /\ blockType # ATOMIC
    THEN [char EXCEPT !.entity = Null]
    ELSE char

\* Variant: only the check against the enabled types, no image rule.
filterCharEntityNoImageRule(char, blockType, enabledTypes) ==
    IF char.entity # Null /\ getEntityType(char.entity) \notin enabledTypes
    THEN [char EXCEPT !.entity = Null]
    ELSE char

\* Variant: the image rule does not look at the block type.
filterCharEntityImageAnywhere(char, blockType, enabledTypes) ==
    IF char.entity # Null
       /\ (getEntityType(char.entity) \notin enabledTypes
           \/ getEntityType(char.entity) = IMAGE)
    THEN [char EXCEPT !.entity = Null]
    ELSE char

\* The character of filterEntityType's inner map.
filterCharEntity(char, blockType, enabledTypes) ==
    IF char.entity # Null
    THEN LET entityType == getEntityType(char.entity)
             shouldFilter == entityType \notin enabledTypes
             shouldFilterImage == entityType = IMAGE /\ blockType # ATOMIC
         IN  IF shouldFilter \/ shouldFilterImage
             THEN [char EXCEPT !.entity = Null]
             ELSE char
    ELSE char

filterEntityType(blockMap, enabledTypes) ==
    LET blocks == [k \in DOMAIN blockMap |->
            LET block == blockMap[k]
                chars == [i \in DOMAIN block.characterList |->
                            filterCharEntity(block.characterList[i], block.type,
                                             enabledTypes)]
                altered == \E i \in DOMAIN block.characterList :
                              chars[i] # block.characterList[i]
            IN  IF altered THEN [block EXCEPT !.characterList = chars] ELSE block]
    IN  merge(blockMap, blocks)

\* The allow lists filterEditorState derives from the descriptors.
enabledBlockTypesOf(types) == {t.type : t \in types} \cup {UNSTYLED, ATOMIC}

enabledInlineStylesOf(styles) == {t.type : t \in styles}

enabledEntityTypesOf(types, enableHR) ==
    {t.type : t \in types} \cup (IF enableHR THEN {HORIZONTAL_RULE} ELSE {})

filterEditorState(blockMap, maxNesting, enableHR, bTypes, iStyles, eTypes) ==
    LET enabledBlockTypes == enabledBlockTypesOf(bTypes)
        enabledInlineStyles == enabledInlineStylesOf(iStyles)
        enabledEntityTypes == enabledEntityTypesOf(eTypes, enableHR)
        s1 == resetBlockDepth(blockMap, maxNesting)
        s2 == resetBlockType(s1, enabledBlockTypes)
        s3 == filterInlineStyle(s2, enabledInlineStyles)
        s4 == resetAtomicBlocks(s3, enabledEntityTypes)
        s5 == filterEntityType(s4, enabledEntityTypes)
    IN  s5

----------------------------------------------------------------------------
(* Documents and configurations the filter is checked on.                  *)

\* A list of descriptors ({type, label, ...}) for each subset of types.
Descriptors(types) == {{[type |-> t] : t \in S} : S \in SUBSET types}

CharsOf(styleSets, entities) ==
    [style : styleSets, entity : entities]

\* Well-formed block contents (as many characters as text positions) of
\* exactly n characters.
ContentsOfLen(n, textChars, chars) ==
    {[text |-> t, characterList |-> c] : t \in [1..n -> textChars],
                                         c \in [1..n -> chars]}

ContentsUpTo(n, textChars, chars) ==
    UNION {ContentsOfLen(k, textChars, chars) : k \in 0..n}

BlocksOf(types, depths, contents) ==
    {[type |-> ty, depth |-> d, text |-> c.text,
      characterList |-> c.characterList] :
        ty \in types, d \in depths, c \in contents}

DocumentsOf(n, blocks) == UNION {[1..k -> blocks] : k \in 1..n}

BlockTypes == {UNSTYLED, ATOMIC, HEADER_ONE}

InitOf(documents, nestings, flags, bTypes, iStyles, eTypes) ==
    /\ input \in documents
    /\ editorState = input
    /\ maxListNesting \in nestings
    /\ enableHorizontalRule \in flags
    /\ blockTypes \in bTypes
    /\ inlineStyles \in iStyles
    /\ entityTypes \in eTypes
    /\ pc = "pasted"

\* Document level: several blocks of every type and depth, each empty or of
\* one character, with or without a link.
Init ==
    InitOf(DocumentsOf(MaxBlocks,
               BlocksOf(BlockTypes, 0..MaxDepth,
                   ContentsUpTo(1, {Placeholder, "a"},
                                CharsOf({{}}, {Null, "1"})))),
           0..MaxDepth, {FALSE}, Descriptors({HEADER_ONE}),
           Descriptors({}), Descriptors({LINK}))

\* Character level, entities: one block, every entity at every position.
InitEntity ==
    InitOf(DocumentsOf(1,
               BlocksOf(BlockTypes, 0..MaxDepth,
                   ContentsUpTo(MaxLen, {Placeholder, "a"},
                                CharsOf({{}}, {Null} \cup EntityKeys)))),
           0..MaxDepth, BOOLEAN, Descriptors({HEADER_ONE}),
           Descriptors({}), Descriptors({LINK, IMAGE}))

\* Character level, styles: one block, every style set at every position.
InitStyle ==
    InitOf(DocumentsOf(1,
               BlocksOf(BlockTypes, {0},
                   ContentsUpTo(MaxLen, {Placeholder, "a"},
                                CharsOf(SUBSET {BOLD, ITALIC}, {Null, "2"})))),
           {0}, {FALSE}, Descriptors({HEADER_ONE}),
           Descriptors({BOLD, ITALIC}), Descriptors({IMAGE}))

----------------------------------------------------------------------------
(* Actions: the editor filters the pasted content, and may filter again.   *)

Filter ==
    /\ pc = "pasted"
    /\ editorState' = filterEditorState(editorState, maxListNesting,
                          enableHorizontalRule, blockTypes, inlineStyles,
                          entityTypes)
    /\ pc' = "filtered"
    /\ UNCHANGED <<input, config>>

Refilter ==
    /\ pc = "filtered"
    /\ editorState' = filterEditorState(editorState, maxListNesting,
                          enableHorizontalRule, blockTypes, inlineStyles,
                          entityTypes)
    /\ pc' = "refiltered"
    /\ UNCHANGED <<input, config>>

Next == Filter \/ Refilter

Spec == Init /\ [][Next]_vars
SpecEntity == InitEntity /\ [][Next]_vars
SpecStyle == InitStyle /\ [][Next]_vars

----------------------------------------------------------------------------
(* Vocabulary of the properties, stated on the configuration itself.       *)

AllowedBlockTypes == {d.type : d \in blockTypes} \cup {UNSTYLED, ATOMIC}

AllowedInlineStyles == {d.type : d \in inlineStyles}

EffectiveEntityTypes ==
    {d.type : d \in entityTypes}
        \cup {t \in {HORIZONTAL_RULE} : enableHorizontalRule}

Min(a, b) == IF a <= b THEN a ELSE b

SameKeys == DOMAIN editorState = DOMAIN input

\* The entity type a character refers to, or Null.
RefType(char) == IF char.entity = Null THEN Null ELSE getEntityType(char.entity)

WellFormed(doc) ==
    \A k \in DOMAIN doc : Len(doc[k].characterList) = Len(doc[k].text)

\* The closures and bounds other than the shape of atomic blocks.
Closed(doc) ==
    \A k \in DOMAIN doc :
        /\ doc[k].depth <= maxListNesting
        /\ doc[k].type \in AllowedBlockTypes
        /\ \A i \in DOMAIN doc[k].characterList :
             LET char == doc[k].characterList[i]
             IN  /\ char.style \subseteq AllowedInlineStyles
                 /\ char.entity # Null => RefType(char) \in EffectiveEntityTypes
                 /\ doc[k].type # ATOMIC => RefType(char) # IMAGE

\* Atomic shape as the property list words it: a text of length 1.
AtomicLengthOne(doc) ==
    \A k \in DOMAIN doc :
        doc[k].type = ATOMIC =>
            Len(doc[k].text) = 1 /\ Len(doc[k].characterList) = 1

\* Atomic shape as the data model words it: the text is the placeholder.
AtomicPlaceholder(doc) ==
    \A k \in DOMAIN doc :
        doc[k].type = ATOMIC =>
            doc[k].text = <<Placeholder>> /\ Len(doc[k].characterList) = 1

\* An atomic block of the input is to be demoted: its first character refers
\* to an entity whose type is not in the effective allowed set.
Demoted(block) ==
    /\ Len(block.characterList) > 0
    /\ block.characterList[1].entity # Null
    /\ RefType(block.characterList[1]) \notin EffectiveEntityTypes

----------------------------------------------------------------------------
(* Properties.                                                             *)

\* C1: filtering is idempotent: filtering the filtered document again, with
\* the same configuration, leaves every block (type, depth, text, styles and
\* entity references) as it is.
C1_Idempotent == [][pc = "filtered" => editorState' = editorState]_vars

\* C2: after filtering, every atomic block has the placeholder as its text
\* and exactly one character.
C2_AtomicShape == pc = "filtered" => AtomicPlaceholder(editorState)

\* C3: after filtering, every entity still referred to has a type in the
\* effective allowed set (the descriptors' types, plus the horizontal rule
\* exactly when it is enabled).
C3_EntityClosure ==
    pc = "filtered" =>
        \A k \in DOMAIN editorState :
            \A i \in DOMAIN editorState[k].characterList :
                LET char == editorState[k].characterList[i]
                IN  char.entity # Null => RefType(char) \in EffectiveEntityTypes

C3_Witness ==
    /\ pc = "filtered"
    /\ enableHorizontalRule
    /\ \E k \in DOMAIN input :
         /\ \E i \in DOMAIN input[k].characterList :
              LET char == input[k].characterList[i]
              IN  char.entity # Null /\ RefType(char) \notin EffectiveEntityTypes
         /\ \E i \in DOMAIN editorState[k].characterList :
              RefType(editorState[k].characterList[i]) = HORIZONTAL_RULE

\* C4: after filtering, no character of a block that is not atomic refers to
\* an image, whether or not images are allowed.
C4_ImageContainment ==
    pc = "filtered" =>
        \A k \in DOMAIN editorState :
            editorState[k].type # ATOMIC =>
                \A i \in DOMAIN editorState[k].characterList :
                    RefType(editorState[k].characterList[i]) # IMAGE

C4_Witness ==
    /\ pc = "filtered"
    /\ IMAGE \in EffectiveEntityTypes
    /\ \E k \in DOMAIN input :
         /\ input[k].type # ATOMIC
         /\ \E i \in DOMAIN input[k].characterList :
              /\ RefType(input[k].characterList[i]) = IMAGE
              /\ editorState[k].characterList[i].entity = Null

\* C5: after filtering, every block's type is allowed, unstyled or atomic; a
\* block of such a type other than atomic keeps its type, and a block of any
\* other type is unstyled.
C5_TypeClosure ==
    pc = "filtered" =>
        /\ SameKeys
        /\ \A k \in DOMAIN input :
             /\ editorState[k].type \in AllowedBlockTypes
             /\ (input[k].type \in AllowedBlockTypes /\ input[k].type # ATOMIC)
                    => editorState[k].type = input[k].type
             /\ input[k].type \notin AllowedBlockTypes
                    => editorState[k].type = UNSTYLED

C5_Witness ==
    /\ pc = "filtered"
    /\ \E k \in DOMAIN input :
         input[k].type \notin AllowedBlockTypes /\ editorState[k].type = UNSTYLED
    /\ \E k \in DOMAIN input :
         input[k].type = ATOMIC /\ editorState[k].type = ATOMIC

\* C6: every character of the output has exactly the styles of the input
\* character at the same position of the same block that are allowed.
C6_StyleClosure ==
    pc = "filtered" =>
        /\ SameKeys
        /\ \A k \in DOMAIN input :
             /\ Len(editorState[k].characterList) <= Len(input[k].characterList)
             /\ \A i \in DOMAIN editorState[k].characterList :
                  editorState[k].characterList[i].style =
                      input[k].characterList[i].style \cap AllowedInlineStyles

C6_Witness ==
    /\ pc = "filtered"
    /\ AllowedInlineStyles = {BOLD}
    /\ \E k \in DOMAIN input :
         /\ input[k].type = ATOMIC
         /\ Len(input[k].characterList) > Len(editorState[k].characterList)
         /\ input[k].characterList[1].style = {BOLD, ITALIC}
         /\ editorState[k].characterList[1].style = {BOLD}

\* C7: the depth of every block of the output is the smaller of its depth in
\* the input and maxListNesting.
C7_DepthClamp ==
    pc = "filtered" =>
        /\ SameKeys
        /\ \A k \in DOMAIN input :
             editorState[k].depth = Min(input[k].depth, maxListNesting)

C7_Witness ==
    /\ pc = "filtered"
    /\ \E k \in DOMAIN input :
         input[k].depth > maxListNesting /\ editorState[k].depth = maxListNesting
    /\ \E k \in DOMAIN input :
         input[k].depth <= maxListNesting /\ editorState[k].depth = input[k].depth

\* C8, as claimed: a document within all closures and bounds, whose atomic
\* blocks have a text of length 1 and one character, is returned as it is.
C8_StableLengthOne ==
    (pc = "filtered" /\ Closed(input) /\ AtomicLengthOne(input))
        => editorState = input

\* C8, amended: a document within all closures and bounds, whose atomic
\* blocks have the placeholder as their text and one character, is returned
\* as it is.
C8_Stable ==
    (pc = "filtered" /\ Closed(input) /\ AtomicPlaceholder(input))
        => editorState = input

C8_Witness ==
    /\ pc = "filtered"
    /\ Closed(input)
    /\ AtomicPlaceholder(input)
    /\ \E k \in DOMAIN input :
         /\ input[k].type = ATOMIC
         /\ RefType(input[k].characterList[1]) = IMAGE
    /\ editorState = input

\* C9: a block that is atomic in the input is unstyled in the output if and
\* only if its first character refers to an entity whose type is not in the
\* effective allowed set; otherwise it is still atomic.
C9_AtomicDemotion ==
    pc = "filtered" =>
        /\ SameKeys
        /\ \A k \in DOMAIN input :
             input[k].type = ATOMIC =>
                 editorState[k].type =
                     IF Demoted(input[k]) THEN UNSTYLED ELSE ATOMIC

C9_Witness ==
    /\ pc = "filtered"
    /\ \E k \in DOMAIN input :
         /\ input[k].type = ATOMIC
         /\ Len(input[k].text) > 1
         /\ Demoted(input[k])
         /\ input[k].characterList[2].entity = Null
         /\ editorState[k].type = UNSTYLED
         /\ editorState[k].text = <<Placeholder>>

\* C10: a document whose blocks each have as many characters as text
\* positions is filtered into such a document.
C10_LengthPreserved ==
    (pc = "filtered" /\ WellFormed(input)) => WellFormed(editorState)

====
